---- MODULE Spec2Model ----
(* Watch-mode controller (packages/jest-cli/src/watch.js) and reporter       *)
(* dispatcher (packages/jest-core/src/ReporterDispatcher.ts) as state        *)
(* machines.  Each handler of the source is one atomic action: JavaScript    *)
(* runs a handler to completion (or to its next await) before another event  *)
(* is delivered.                                                             *)
EXTENDS Naturals, Sequences, FiniteSets, TLC

(***************************************************************************)
(* Bounds of the model.                                                    *)
(***************************************************************************)
\* runJest invocations explored per behaviour
MaxRuns == 2
\* characters the edit buffer may hold
MaxLen == 2
\* reporters a dispatcher may hold while dispatches are followed
MaxReporters == 2
\* reporters a dispatcher may hold while only its registry is followed
MaxRegistered == 3

(***************************************************************************)
(* watch.js : inputs                                                       *)
(***************************************************************************)
\* The members of KEYS the handler compares against, and one other
\* printable key ("X") that only the default branch handles.
KEYS ==
  {"CONTROL_C", "CONTROL_D", "ENTER", "ESCAPE", "ARROW_DOWN", "ARROW_LEFT",
   "ARROW_RIGHT", "ARROW_UP", "BACKSPACE", "Q", "A", "O", "P", "U",
   "QUESTION_MARK", "X"}

ArrowKeys == {"ARROW_DOWN", "ARROW_LEFT", "ARROW_RIGHT", "ARROW_UP"}

\* The keys explored while a pattern is being entered: every key the handler
\* names there, and two of the printable keys its default branch appends (a
\* key that is a command outside pattern entry, and one that never is).
PatternKeys ==
  {"CONTROL_C", "CONTROL_D", "ENTER", "ESCAPE", "BACKSPACE", "P", "X"}
    \cup ArrowKeys

\* A faulty variant: the enter-pattern key is left out of the abort keys.
AbortKeysWithoutP == {"Q", "ENTER", "A", "O"}

\* [KEYS.Q, KEYS.ENTER, KEYS.A, KEYS.O, KEYS.P]
AbortKeys == {"Q", "ENTER", "A", "O", "P"}

\* new Buffer(key, 'hex').toString(): the character a key's bytes decode to
Decode(key) ==
  CASE key = "Q" -> "q"
    [] key = "A" -> "a"
    [] key = "O" -> "o"
    [] key = "P" -> "p"
    [] key = "U" -> "u"
    [] key = "QUESTION_MARK" -> "?"
    [] key = "X" -> "x"
    [] OTHER -> "#"

\* JavaScript's undefined as the value of an object's field
Undefined == "undefined"

\* JavaScript's undefined as the value of currentPattern (argv._[0] of an
\* empty argv._): no sequence of characters that Decode yields
UndefinedPattern == << "undefined" >>

\* versions of the haste file system a change notification may deliver
HasteFS == {"fsA", "fsB"}

\* patterns given on the command line (argv._), as character sequences
CliPatterns == {<< >>, << <<"x">> >>}

VARIABLES
  currentPattern,      \* a sequence of characters, or UndefinedPattern
  hasSnapshotFailure,
  isEnteringPattern,
  isRunning,
  testWatcher,         \* index into tokens of the controller's TestWatcher
  displayHelp,
  searchSource,        \* [context |-> the haste context it was built from]
  hasteContext,
  argv,                \* [mode |-> "watch" | "watchAll", pattern |-> argv._]
  tokens,              \* heap of TestWatcher objects: <<[interrupted |-> BOOLEAN]>>
  runs,                \* the runJest invocations, in order, with their settlement
  pipe,                \* what was last written to the output sink
  exited,              \* process.exit was called
  hideUsage,           \* process.env.JEST_HIDE_USAGE is set
  config               \* the shared configuration object

watchVars ==
  <<currentPattern, hasSnapshotFailure, isEnteringPattern, isRunning,
    testWatcher, displayHelp, searchSource, hasteContext, argv, tokens, runs,
    pipe, exited, hideUsage, config>>

VARIABLES
  _reporters,   \* this._reporters: the reporters (their classes), in order
  dState,       \* the dispatch: "idle", "awaiting", "resolved" or "rejected"
  dEvent,       \* the dispatch method called last
  dArray,       \* the array its for-of loop iterates
  dShared,      \* the loop's array is still the object this._reporters holds
  dIndex,       \* position in dArray of the reporter whose hook is awaited
  pending,      \* positions whose hook was invoked and has not settled
  invoked,      \* the hooks invoked by the dispatch, in order
  testResult    \* the testResult object passed to onTestFileResult

dispatchVars ==
  <<_reporters, dState, dEvent, dArray, dShared, dIndex, pending, invoked,
    testResult>>

VARIABLES
  lastError,    \* what each reporter's getLastError() returns at present
  returned      \* the value getErrors() or hasErrors() returned last

reporterVars == <<lastError, returned>>

VARIABLES
  _cachedTestResults,  \* this._cachedTestResults, once it is assigned
  cacheAssigned,       \* this._cachedTestResults has been assigned
  promptPattern,       \* the pattern _onChange was called with last
  matchedTests,        \* what _getMatchedTests returned last
  thrown,              \* the error _onChange threw last, or "none"
  typeahead,           \* what _printTypeahead wrote last below the input
  highlighted          \* the last call of highlight: its arguments and result

promptVars ==
  <<_cachedTestResults, cacheAssigned, promptPattern, matchedTests, thrown,
    typeahead, highlighted>>

\* the state outside the watch controller, outside the dispatcher, and
\* outside the pattern prompt
outsideWatch == <<dispatchVars, reporterVars, promptVars>>
outsideDispatch == <<watchVars, reporterVars, promptVars>>
outsidePrompt == <<watchVars, dispatchVars, reporterVars>>

vars == <<watchVars, dispatchVars, reporterVars, promptVars>>

(***************************************************************************)
(* watch.js : helpers                                                      *)
(***************************************************************************)
\* setWatchMode(argv, mode): the mode is set, argv._ is kept
SetWatchMode(a, mode) == [a EXCEPT !.mode = mode]

\* setWatchMode(argv, mode, {pattern}): the mode is set and argv._ replaced
SetWatchModePattern(a, mode, pattern) == [mode |-> mode, pattern |-> pattern]

\* A faulty variant: escape keeps the edited text.
KeepEditedText(a) == currentPattern

\* argv._[0]
FirstPattern(a) ==
  IF a.pattern = << >> THEN UndefinedPattern ELSE a.pattern[1]

\* A faulty variant: one process-wide TestWatcher instead of one per allocation.
SharedTestWatcher(tks) ==
  IF tks = << >> THEN << [interrupted |-> FALSE] >> ELSE tks

\* new TestWatcher({isWatchMode: true}): the heap with the new object at its
\* end; the object's reference is the length of the result.
NewTestWatcher(tks) == Append(tks, [interrupted |-> FALSE])

\* testWatcher.setState({interrupted: true}) on the object t refers to
SetInterrupted(tks, t) == [tks EXCEPT ![t].interrupted = TRUE]

\* Object.assign({}, config, overrideConfig)
MergeConfig(cfg, overrideConfig) ==
  [k \in DOMAIN cfg \cup DOMAIN overrideConfig |->
     IF k \in DOMAIN overrideConfig THEN overrideConfig[k] ELSE cfg[k]]

NoOverride == [k \in {} |-> FALSE]

\* currentPattern.slice(0, -1)
SliceLast(s) == IF Len(s) = 0 THEN s ELSE SubSeq(s, 1, Len(s) - 1)

ActiveRuns == {i \in DOMAIN runs : runs[i].status = "active"}

(***************************************************************************)
(* watch.js : startRun                                                     *)
(***************************************************************************)
\* A faulty variant: the overrides are assigned to the shared configuration
\* object, which is what the run is given.
BeginRunAssigning(context, overrideConfig) ==
  /\ Len(runs) < MaxRuns
  /\ tokens' = NewTestWatcher(tokens)
  /\ testWatcher' = Len(tokens')
  /\ pipe' = "preRun"
  /\ isRunning' = TRUE
  /\ config' = MergeConfig(config, overrideConfig)
  /\ runs' = Append(runs, [context |-> context,
                           token |-> testWatcher',
                           config |-> config',
                           status |-> "active",
                           usage |-> FALSE])

\* The part of startRun after its guard: a new TestWatcher, the pre-run
\* message, isRunning, and the call of runJest with the merged configuration,
\* a new frozen object; the shared configuration object is only read.
\* The model explores at most MaxRuns invocations of runJest.
BeginRun(context, overrideConfig) ==
  /\ Len(runs) < MaxRuns
  /\ tokens' = NewTestWatcher(tokens)
  /\ testWatcher' = Len(tokens')
  /\ pipe' = "preRun"
  /\ isRunning' = TRUE
  /\ config' = config
  /\ runs' = Append(runs, [context |-> context,
                           token |-> testWatcher',
                           config |-> MergeConfig(config, overrideConfig),
                           status |-> "active",
                           usage |-> FALSE])

\* A faulty variant: startRun returns before it does anything.
StartRunDropped(context, overrideConfig) ==
  UNCHANGED <<tokens, testWatcher, pipe, isRunning, runs, config>>

\* A faulty variant: startRun without its isRunning guard.
StartRunUnguarded(context, overrideConfig) == BeginRun(context, overrideConfig)

StartRun(context, overrideConfig) ==
  IF isRunning
    THEN UNCHANGED <<tokens, testWatcher, pipe, isRunning, runs, config>>
    ELSE BeginRun(context, overrideConfig)

\* The completion callback runJest calls with the results of run i.
OnComplete(i, failure) ==
  /\ isRunning' = FALSE
  /\ hasSnapshotFailure' = failure
  /\ tokens' = NewTestWatcher(tokens)
  /\ testWatcher' = Len(tokens')
  /\ IF displayHelp
       THEN /\ pipe' = "usage"
            /\ displayHelp' = ~hideUsage
       ELSE UNCHANGED <<pipe, displayHelp>>
  /\ runs' = [runs EXCEPT ![i].status = "resolved", ![i].usage = displayHelp]

\* runJest settles by calling the completion callback with its results; the
\* promise then resolves and the first .then handler does nothing.
RunComplete(i, failure) ==
  /\ ~exited
  /\ i \in ActiveRuns
  /\ OnComplete(i, failure)
  /\ UNCHANGED <<currentPattern, isEnteringPattern, searchSource, hasteContext,
                 argv, exited, hideUsage, config>>
  /\ UNCHANGED outsideWatch

\* runJest rejects: it has no results to call the completion callback with;
\* the second .then handler logs the error and changes nothing.
RunReject(i) ==
  /\ ~exited
  /\ i \in ActiveRuns
  /\ runs' = [runs EXCEPT ![i].status = "rejected"]
  /\ UNCHANGED <<currentPattern, hasSnapshotFailure, isEnteringPattern,
                 isRunning, testWatcher, displayHelp, searchSource,
                 hasteContext, argv, tokens, pipe, exited, hideUsage, config>>
  /\ UNCHANGED outsideWatch

\* The run coordinator keeps the TestWatcher it was given; a holder of the
\* token of a settled run sets its flag.
StaleInterrupt(i) ==
  /\ ~exited
  /\ i \in DOMAIN runs
  /\ runs[i].status # "active"
  /\ ~tokens[runs[i].token].interrupted
  /\ tokens' = SetInterrupted(tokens, runs[i].token)
  /\ UNCHANGED <<currentPattern, hasSnapshotFailure, isEnteringPattern,
                 isRunning, testWatcher, displayHelp, searchSource,
                 hasteContext, argv, runs, pipe, exited, hideUsage, config>>
  /\ UNCHANGED outsideWatch

(***************************************************************************)
(* watch.js : hasteMap.on('change')                                        *)
(***************************************************************************)
\* A faulty variant: the handler leaves the pattern entry as it is.
HasteChangeKeepsEntry(fs) ==
  /\ ~exited
  /\ hasteContext' = fs
  /\ searchSource' = [context |-> hasteContext']
  /\ StartRun(hasteContext', NoOverride)
  /\ UNCHANGED <<currentPattern, isEnteringPattern, hasSnapshotFailure,
                 displayHelp, argv, exited, hideUsage>>
  /\ UNCHANGED outsideWatch

HasteChange(fs) ==
  /\ ~exited
  /\ hasteContext' = fs
  /\ currentPattern' = << >>
  /\ isEnteringPattern' = FALSE
  /\ searchSource' = [context |-> hasteContext']
  /\ StartRun(hasteContext', NoOverride)
  /\ UNCHANGED <<hasSnapshotFailure, displayHelp, argv, exited, hideUsage>>
  /\ UNCHANGED outsideWatch

(***************************************************************************)
(* watch.js : onKeypress                                                   *)
(***************************************************************************)
\* A faulty variant: the forced-quit keys interrupt the run before the exit.
ForcedQuitAborting(key) ==
  /\ key \in {"CONTROL_C", "CONTROL_D"}
  /\ exited' = TRUE
  /\ tokens' = IF isRunning THEN SetInterrupted(tokens, testWatcher)
               ELSE tokens
  /\ UNCHANGED <<currentPattern, hasSnapshotFailure, isEnteringPattern,
                 isRunning, testWatcher, displayHelp, searchSource,
                 hasteContext, argv, runs, pipe, hideUsage, config>>

\* key === KEYS.CONTROL_C || key === KEYS.CONTROL_D
ForcedQuit(key) ==
  /\ key \in {"CONTROL_C", "CONTROL_D"}
  /\ exited' = TRUE
  /\ UNCHANGED <<currentPattern, hasSnapshotFailure, isEnteringPattern,
                 isRunning, testWatcher, displayHelp, searchSource,
                 hasteContext, argv, tokens, runs, pipe, hideUsage, config>>

\* the switch taken while isEnteringPattern
PatternKey(key) ==
  /\ key \notin {"CONTROL_C", "CONTROL_D"}
  /\ isEnteringPattern
  /\ CASE key = "ENTER" ->
            /\ isEnteringPattern' = FALSE
            /\ argv' = SetWatchModePattern(argv, "watch", <<currentPattern>>)
            /\ StartRun(hasteContext, NoOverride)
            /\ UNCHANGED currentPattern
       [] key = "ESCAPE" ->
            /\ isEnteringPattern' = FALSE
            /\ pipe' = "usage"
            /\ currentPattern' = FirstPattern(argv)
            /\ UNCHANGED <<argv, tokens, testWatcher, isRunning, runs, config>>
       [] key \in ArrowKeys ->
            UNCHANGED <<isEnteringPattern, argv, currentPattern, pipe, tokens,
                        testWatcher, isRunning, runs, config>>
       [] OTHER ->
            /\ currentPattern' =
                 IF key = "BACKSPACE"
                   THEN SliceLast(currentPattern)
                   ELSE Append(currentPattern, Decode(key))
            \* the model keeps the edit buffer within MaxLen characters
            /\ Len(currentPattern') <= MaxLen
            /\ pipe' = "pattern"
            /\ UNCHANGED <<isEnteringPattern, argv, tokens, testWatcher,
                           isRunning, runs, config>>
  /\ UNCHANGED <<hasSnapshotFailure, displayHelp, searchSource, hasteContext,
                 exited, hideUsage>>

\* A faulty variant: the abort test is missing, every key takes its usual branch.
NeverAbort(key) == FALSE

\* isRunning && testWatcher && [Q, ENTER, A, O, P].indexOf(key) !== -1
IsAbort(key) == isRunning /\ testWatcher # 0 /\ key \in AbortKeys

\* "Abort test run"
AbortKey(key) ==
  /\ ~isEnteringPattern
  /\ IsAbort(key)
  /\ tokens' = SetInterrupted(tokens, testWatcher)
  /\ UNCHANGED <<currentPattern, hasSnapshotFailure, isEnteringPattern,
                 isRunning, testWatcher, displayHelp, searchSource,
                 hasteContext, argv, runs, pipe, exited, hideUsage, config>>

\* the final switch of onKeypress
CommandKey(key) ==
  /\ key \notin {"CONTROL_C", "CONTROL_D"}
  /\ ~isEnteringPattern
  /\ ~IsAbort(key)
  /\ CASE key = "Q" ->
            /\ exited' = TRUE
            /\ UNCHANGED <<argv, tokens, testWatcher, pipe, isRunning, runs,
                           isEnteringPattern, currentPattern, config>>
       [] key = "ENTER" ->
            /\ StartRun(hasteContext, NoOverride)
            /\ UNCHANGED <<argv, exited, isEnteringPattern, currentPattern>>
       [] key = "U" ->
            /\ StartRun(hasteContext, [updateSnapshot |-> TRUE])
            /\ UNCHANGED <<argv, exited, isEnteringPattern, currentPattern>>
       [] key = "A" ->
            /\ argv' = SetWatchMode(argv, "watchAll")
            /\ StartRun(hasteContext, NoOverride)
            /\ UNCHANGED <<exited, isEnteringPattern, currentPattern>>
       [] key = "O" ->
            /\ argv' = SetWatchMode(argv, "watch")
            /\ StartRun(hasteContext, NoOverride)
            /\ UNCHANGED <<exited, isEnteringPattern, currentPattern>>
       [] key = "P" ->
            /\ isEnteringPattern' = TRUE
            /\ currentPattern' = << >>
            /\ pipe' = "pattern"
            /\ UNCHANGED <<argv, exited, tokens, testWatcher, isRunning, runs,
                           config>>
       [] key = "QUESTION_MARK" ->
            /\ pipe' = IF hideUsage THEN "usage" ELSE pipe
            /\ UNCHANGED <<argv, exited, tokens, testWatcher, isRunning, runs,
                           isEnteringPattern, currentPattern, config>>
       [] OTHER ->
            UNCHANGED <<argv, exited, tokens, testWatcher, pipe, isRunning,
                        runs, isEnteringPattern, currentPattern, config>>
  /\ UNCHANGED <<hasSnapshotFailure, displayHelp, searchSource, hasteContext,
                 hideUsage>>

\* stdin.on('data', onKeypress); after process.exit nothing is delivered
OnKeypress(key) ==
  /\ ~exited
  /\ \/ ForcedQuit(key)
     \/ PatternKey(key)
     \/ AbortKey(key)
     \/ CommandKey(key)
  /\ UNCHANGED outsideWatch

(***************************************************************************)
(* ReporterDispatcher.ts : reporters                                       *)
(***************************************************************************)
\* Reporter classes the model registers instances of, by the optional
\* methods their instances expose.  "Both" extends "Legacy".
ReporterClasses == {"Legacy", "Both", "Modern", "Bare"}

Methods(cls) ==
  CASE cls = "Legacy" ->
         {"onRunStart", "onTestStart", "onTestResult", "onRunComplete",
          "getLastError"}
    [] cls = "Both" ->
         {"onRunStart", "onTestStart", "onTestResult", "onRunComplete",
          "getLastError", "onTestFileStart", "onTestFileResult",
          "onTestCaseResult"}
    [] cls = "Modern" ->
         {"onTestFileStart", "onTestFileResult", "onTestCaseResult"}
    [] OTHER -> {}

\* reporter instanceof ReporterClass
InstanceOf(reporter, ReporterClass) ==
  \/ reporter = ReporterClass
  \/ reporter = "Both" /\ ReporterClass = "Legacy"

\* the dispatch methods of the class
Events ==
  {"onTestFileResult", "onTestFileStart", "onRunStart", "onTestCaseResult",
   "onRunComplete"}

\* the test results a caller passes to onTestFileResult
TestResults ==
  {[sourceMaps |-> "data", coverage |-> "data", console |-> "data"],
   [sourceMaps |-> "data", coverage |-> Undefined, console |-> Undefined]}


(***************************************************************************)
(* ReporterDispatcher.ts : the dispatch methods                            *)
(***************************************************************************)
\* A faulty variant: the legacy alias is looked up before the preferred name.
HookForLegacyFirst(event, reporter) ==
  CASE event = "onTestFileResult" ->
         IF "onTestResult" \in Methods(reporter) THEN "onTestResult"
         ELSE IF "onTestFileResult" \in Methods(reporter)
                THEN "onTestFileResult" ELSE "none"
    [] event = "onTestFileStart" ->
         IF "onTestStart" \in Methods(reporter) THEN "onTestStart"
         ELSE IF "onTestFileStart" \in Methods(reporter)
                THEN "onTestFileStart" ELSE "none"
    [] OTHER -> IF event \in Methods(reporter) THEN event ELSE "none"

\* The hook a loop body calls on a reporter: the if / else-if of
\* onTestFileResult and onTestFileStart, the && of the other three.
HookFor(event, reporter) ==
  CASE event = "onTestFileResult" ->
         IF "onTestFileResult" \in Methods(reporter) THEN "onTestFileResult"
         ELSE IF "onTestResult" \in Methods(reporter)
                THEN "onTestResult" ELSE "none"
    [] event = "onTestFileStart" ->
         IF "onTestFileStart" \in Methods(reporter) THEN "onTestFileStart"
         ELSE IF "onTestStart" \in Methods(reporter)
                THEN "onTestStart" ELSE "none"
    [] OTHER -> IF event \in Methods(reporter) THEN event ELSE "none"

\* The first position from `from` on whose reporter has a hook for the
\* event; 0 when the loop runs off the end of the array.
NextWithHook(arr, from, event) ==
  LET S == {i \in from..Len(arr) : HookFor(event, arr[i]) # "none"}
  IN IF S = {} THEN 0 ELSE CHOOSE i \in S : \A j \in S : i <= j

\* A faulty variant: the fields are not released.
ReleaseNothing(tr) == tr

\* testResult.sourceMaps = testResult.coverage = testResult.console = undefined
Release(tr) ==
  [sourceMaps |-> Undefined, coverage |-> Undefined, console |-> Undefined]

\* A faulty variant: every remaining hook is invoked without awaiting the one
\* before it.
RunLoopNoAwait(arr, from, event, tr) ==
  LET S == {i \in from..Len(arr) : HookFor(event, arr[i]) # "none"}
      first == NextWithHook(arr, from, event)
  IN IF first = 0
       THEN [state |-> "resolved", index |-> 0, calls |-> << >>,
             pending |-> {},
             testResult |-> IF event = "onTestFileResult"
                              THEN Release(tr) ELSE tr]
       ELSE [state |-> "awaiting", index |-> Len(arr),
             calls |-> [k \in 1..Cardinality(S) |->
                          LET i == CHOOSE i \in S :
                                     Cardinality({j \in S : j < i}) = k - 1
                          IN [index |-> i, hook |-> HookFor(event, arr[i]),
                              saw |-> tr]],
             pending |-> S, testResult |-> tr]

\* The loop from position `from` up to its next await, or past its end: the
\* reporters without a hook are skipped, the first with one has it invoked
\* and the method waits; past the end onTestFileResult releases the fields
\* and the method returns.
RunLoop(arr, from, event, tr) ==
  LET i == NextWithHook(arr, from, event)
  IN IF i = 0
       THEN [state |-> "resolved", index |-> 0, calls |-> << >>,
             pending |-> {},
             testResult |-> IF event = "onTestFileResult"
                              THEN Release(tr) ELSE tr]
       ELSE [state |-> "awaiting", index |-> i,
             calls |-> << [index |-> i, hook |-> HookFor(event, arr[i]),
                           saw |-> tr] >>,
             pending |-> {i}, testResult |-> tr]

\* A caller calls one of the five dispatch methods; the method runs to its
\* first await, or to its end.  One dispatch is followed at a time.
Dispatch(event, tr) ==
  /\ dState = "idle"
  /\ dEvent' = event
  /\ dArray' = _reporters
  /\ LET r == RunLoop(_reporters, 1, event,
                      IF event = "onTestFileResult" THEN tr ELSE testResult)
     IN /\ dState' = r.state
        /\ dIndex' = r.index
        /\ invoked' = r.calls
        /\ pending' = r.pending
        /\ testResult' = r.testResult
        /\ dShared' = (r.state = "awaiting")
  /\ UNCHANGED _reporters
  /\ UNCHANGED outsideDispatch

\* A faulty variant: a failure of the awaited hook is caught and the loop
\* goes on.
SettleCatching(ok) ==
  /\ dState = "awaiting"
  /\ LET r == RunLoop(dArray, dIndex + 1, dEvent, testResult)
     IN /\ dState' = r.state
        /\ dIndex' = r.index
        /\ invoked' = invoked \o r.calls
        /\ pending' = (pending \ {dIndex}) \cup r.pending
        /\ testResult' = r.testResult
        /\ dShared' = (dShared /\ r.state = "awaiting")
  /\ UNCHANGED <<_reporters, dEvent, dArray>>
  /\ UNCHANGED outsideDispatch

\* The awaited hook settles.  Fulfilled, the loop goes on from the next
\* position of its array; rejected, the await throws and the method rejects.
Settle(ok) ==
  /\ dState = "awaiting"
  /\ IF ok
       THEN LET r == RunLoop(dArray, dIndex + 1, dEvent, testResult)
            IN /\ dState' = r.state
               /\ dIndex' = r.index
               /\ invoked' = invoked \o r.calls
               /\ pending' = (pending \ {dIndex}) \cup r.pending
               /\ testResult' = r.testResult
               /\ dShared' = (dShared /\ r.state = "awaiting")
       ELSE /\ dState' = "rejected"
            /\ pending' = pending \ {dIndex}
            /\ dShared' = FALSE
            /\ UNCHANGED <<dIndex, invoked, testResult>>
  /\ UNCHANGED <<_reporters, dEvent, dArray>>
  /\ UNCHANGED outsideDispatch

\* The caller's await of the dispatch method ends, fulfilled or rejected: the
\* method's frame is gone.  The testResult object stays with the caller.
Return ==
  /\ dState \in {"resolved", "rejected"}
  /\ dState' = "idle"
  /\ dEvent' = "none"
  /\ dArray' = << >>
  /\ dIndex' = 0
  /\ invoked' = << >>
  /\ UNCHANGED <<_reporters, dShared, pending, testResult>>
  /\ UNCHANGED outsideDispatch

\* register(reporter): push onto the array this._reporters holds, which a
\* loop in progress may be iterating.
Register(reporter) ==
  /\ dState \in {"idle", "awaiting"}
  /\ _reporters' = Append(_reporters, reporter)
  /\ dArray' = IF dShared THEN Append(dArray, reporter) ELSE dArray
  /\ UNCHANGED <<dState, dEvent, dShared, dIndex, pending, invoked,
                 testResult>>
  /\ UNCHANGED outsideDispatch

\* A faulty variant: only the first matching reporter is removed.
UnregisterFirst(ReporterClass) ==
  /\ dState \in {"idle", "awaiting"}
  /\ LET S == {i \in DOMAIN _reporters :
                InstanceOf(_reporters[i], ReporterClass)}
         first == IF S = {} THEN 0 ELSE CHOOSE i \in S : \A j \in S : i <= j
     IN _reporters' =
          IF first = 0 THEN _reporters
          ELSE SubSeq(_reporters, 1, first - 1)
                 \o SubSeq(_reporters, first + 1, Len(_reporters))
  /\ dShared' = FALSE
  /\ UNCHANGED <<dState, dEvent, dArray, dIndex, pending, invoked,
                 testResult>>
  /\ UNCHANGED outsideDispatch

\* unregister(ReporterClass): this._reporters becomes a new, filtered array;
\* a loop in progress keeps the old one.
Unregister(ReporterClass) ==
  /\ dState \in {"idle", "awaiting"}
  /\ _reporters' = SelectSeq(_reporters,
                             LAMBDA r : ~InstanceOf(r, ReporterClass))
  /\ dShared' = FALSE
  /\ UNCHANGED <<dState, dEvent, dArray, dIndex, pending, invoked,
                 testResult>>
  /\ UNCHANGED outsideDispatch

(***************************************************************************)
(* ReporterDispatcher.ts : getErrors, hasErrors                            *)
(***************************************************************************)
\* JavaScript's null
Null == "null"

\* what getLastError() of a reporter may return: null, or one of two errors
LastErrors == {Null, "E1", "E2"}

\* the reporters that expose getLastError
WithLastError == {r \in ReporterClasses : "getLastError" \in Methods(r)}

\* reporter.getLastError && reporter.getLastError()
LastErrorOf(reporter) ==
  IF "getLastError" \in Methods(reporter)
    THEN lastError[reporter] ELSE Undefined

\* the truth value of an error, null or undefined in a condition
Truthy(v) == v \notin {Null, Undefined}

\* A faulty variant: a reporter without an error contributes its null.
ReduceErrorsKeepingNull(reporters, k, list) ==
  LET RECURSIVE go(_, _)
      go(i, l) ==
        IF i > Len(reporters) THEN l
        ELSE go(i + 1,
                IF "getLastError" \in Methods(reporters[i])
                  THEN Append(l, LastErrorOf(reporters[i])) ELSE l)
  IN go(k, list)

\* this._reporters.reduce((list, reporter) => ..., []) from position k on
\* with the list accumulated so far
ReduceErrors(reporters, k, list) ==
  LET RECURSIVE go(_, _)
      go(i, l) ==
        IF i > Len(reporters) THEN l
        ELSE LET error == LastErrorOf(reporters[i])
             IN go(i + 1, IF Truthy(error) THEN Append(l, error) ELSE l)
  IN go(k, list)

\* getErrors()
GetErrors == ReduceErrors(_reporters, 1, << >>)

\* hasErrors()
HasErrors == Len(GetErrors) # 0

\* a caller calls getErrors()
GetErrorsCall ==
  /\ returned' = [method |-> "getErrors", value |-> GetErrors]
  /\ UNCHANGED <<lastError, dispatchVars, watchVars, promptVars>>

\* a caller calls hasErrors()
HasErrorsCall ==
  /\ returned' = [method |-> "hasErrors", value |-> HasErrors]
  /\ UNCHANGED <<lastError, dispatchVars, watchVars, promptVars>>

\* A reporter records an error, or clears the one it had: from then on its
\* getLastError() returns e.
ReporterSetsError(reporter, e) ==
  /\ reporter \in WithLastError
  /\ lastError[reporter] # e
  /\ lastError' = [lastError EXCEPT ![reporter] = e]
  /\ UNCHANGED <<returned, dispatchVars, watchVars, promptVars>>

(***************************************************************************)
(* TestNamePatternPrompt : regular expressions                             *)
(***************************************************************************)
\* The characters of the patterns explored: two letters, the wildcard, the
\* repetition and the group opener.  The titles are made of the two letters,
\* one of them in both cases.
PatternChars == {"a", "b", ".", "*", "("}

\* the patterns of at most n characters
PatternsUpTo(n) == UNION {[1..k -> PatternChars] : k \in 0..n}

\* new RegExp(pattern, 'i') does not throw: every "*" has something to
\* repeat, and no group is left open (no pattern here closes one)
Compiles(pattern) ==
  \A i \in DOMAIN pattern :
    /\ pattern[i] # "("
    /\ pattern[i] = "*" => (i > 1 /\ pattern[i - 1] # "*")

\* the 'i' flag: letters are compared in one case
Lower(c) == IF c = "A" THEN "a" ELSE c

\* an atom of the expression, a character or the wildcard, matches one
\* character of the title
AtomMatches(atom, c) == atom = "." \/ Lower(atom) = Lower(c)

\* Backtracking match of the pattern from its k-th character on against the
\* title from position j: the position after the match, or 0 when there is
\* none.  An atom followed by "*" takes as many characters as it can and
\* gives back one at a time.
RECURSIVE MatchHere(_, _, _, _)
MatchHere(pattern, k, title, j) ==
  IF k > Len(pattern) THEN j
  ELSE IF ~(k < Len(pattern) /\ pattern[k + 1] = "*")
    THEN IF j <= Len(title) /\ AtomMatches(pattern[k], title[j])
           THEN MatchHere(pattern, k + 1, title, j + 1)
           ELSE 0
  ELSE LET run == {n \in 0..(Len(title) + 1 - j) :
                     \A i \in j..(j + n - 1) :
                       AtomMatches(pattern[k], title[i])}
           ok == {n \in run : MatchHere(pattern, k + 2, title, j + n) # 0}
       IN IF ok = {} THEN 0
          ELSE MatchHere(pattern, k + 2, title,
                         j + (CHOOSE n \in ok : \A m \in ok : m <= n))

NoMatch == [index |-> 0, end |-> 0]

\* regex.exec(title): the leftmost match, as the position of its first
\* character and the position after its last; NoMatch for null
Exec(pattern, title) ==
  LET S == {j \in 1..(Len(title) + 1) : MatchHere(pattern, 1, title, j) # 0}
  IN IF S = {} THEN NoMatch
     ELSE LET j == CHOOSE j \in S : \A i \in S : j <= i
          IN [index |-> j, end |-> MatchHere(pattern, 1, title, j)]

\* regex.test(title)
Test(pattern, title) == Exec(pattern, title) # NoMatch

(***************************************************************************)
(* highlight                                                               *)
(***************************************************************************)
\* chalk.dim(text): every character of the text dimmed; nothing for ''
Dim(text) == [i \in DOMAIN text |-> [char |-> text[i], dim |-> TRUE]]

\* text written as it is
Plain(text) == [i \in DOMAIN text |-> [char |-> text[i], dim |-> FALSE]]

\* A faulty variant: the matched span is dimmed and the rest is not.
HighlightInverted(title, pattern) ==
  LET match == Exec(pattern, title)
  IN IF match = NoMatch THEN Dim(title)
     ELSE Plain(SubSeq(title, 1, match.index - 1))
            \o Dim(SubSeq(title, match.index, match.end - 1))
            \o Plain(SubSeq(title, match.end, Len(title)))

\* highlight(title, pattern): the title with what precedes and what follows
\* the match dimmed; all of it dimmed when the pattern matches nowhere
Highlight(title, pattern) ==
  LET match == Exec(pattern, title)
  IN IF match = NoMatch THEN Dim(title)
     ELSE Dim(SubSeq(title, 1, match.index - 1))
            \o Plain(SubSeq(title, match.index, match.end - 1))
            \o Dim(SubSeq(title, match.end, Len(title)))

\* the titles highlight is applied to
Titles ==
  {<< >>, <<"b">>, <<"A">>, <<"a", "b">>, <<"b", "A">>, <<"a", "a", "b">>,
   <<"b", "a", "b">>, <<"A", "b", "a">>}

\* a caller calls highlight with a pattern that compiles
HighlightCall(title, pattern) ==
  /\ Compiles(pattern)
  /\ highlighted' = [title |-> title, pattern |-> pattern,
                     out |-> Highlight(title, pattern)]
  /\ UNCHANGED <<_cachedTestResults, cacheAssigned, promptPattern,
                 matchedTests, thrown, typeahead>>
  /\ UNCHANGED outsidePrompt

(***************************************************************************)
(* TestNamePatternPrompt                                                   *)
(***************************************************************************)
\* _onChange: Object.assign({max: 10}, options)
TypeaheadMax == 10

\* the test results a caller passes to updateCachedTestResults
CachedResults ==
  {<< >>,
   << [testResults |-> << [title |-> <<"a", "b">>],
                          [title |-> <<"b", "A">>] >>] >>,
   << [testResults |-> << [title |-> <<"b", "A">>],
                          [title |-> <<"a", "b">>] >>],
      [testResults |-> << >>],
      [testResults |-> << [title |-> <<"b">>],
                          [title |-> <<"a", "b">>] >>] >>}

\* A faulty variant: a title already in the list is not pushed again.
PushMatchingOnce(testResults, pattern, matched) ==
  LET RECURSIVE go(_, _)
      go(i, list) ==
        IF i > Len(testResults) THEN list
        ELSE go(i + 1,
                IF /\ Test(pattern, testResults[i].title)
                   /\ \A k \in DOMAIN list : list[k] # testResults[i].title
                  THEN Append(list, testResults[i].title) ELSE list)
  IN go(1, matched)

\* testResults.forEach(({title}) => {if (regex.test(title)) push(title)})
PushMatching(testResults, pattern, matched) ==
  LET RECURSIVE go(_, _)
      go(i, list) ==
        IF i > Len(testResults) THEN list
        ELSE go(i + 1,
                IF Test(pattern, testResults[i].title)
                  THEN Append(list, testResults[i].title) ELSE list)
  IN go(1, matched)

\* this._cachedTestResults.forEach(({testResults}) => ...)
ScanCache(cache, pattern) ==
  LET RECURSIVE go(_, _)
      go(i, list) ==
        IF i > Len(cache) THEN list
        ELSE go(i + 1, PushMatching(cache[i].testResults, pattern, list))
  IN go(1, << >>)

\* _getMatchedTests(pattern): [] if the pattern does not compile; forEach of
\* an undefined this._cachedTestResults throws a TypeError
GetMatchedTests(pattern) ==
  IF ~Compiles(pattern) THEN [thrown |-> "none", list |-> << >>]
  ELSE IF ~cacheAssigned THEN [thrown |-> "TypeError", list |-> << >>]
  ELSE [thrown |-> "none", list |-> ScanCache(_cachedTestResults, pattern)]

\* scroll(matchedTests.length, options) with no row selected, and
\* matchedTests.slice(start, end): the first max matches
VisibleSlice(matched, max) ==
  SubSeq(matched, 1, IF Len(matched) < max THEN Len(matched) ELSE max)

\* formatTestNameByPattern(name, pattern, width) of a name no longer than
\* the width
FormatTestNameByPattern(name, pattern) == Highlight(name, pattern)

\* What _printTypeahead writes below the input line: the hint for an empty
\* pattern, else the number of matches, the visible matches highlighted,
\* and how many more there are.
PrintTypeahead(pattern, matched) ==
  IF pattern = << >>
    THEN [hint |-> TRUE, total |-> 0, items |-> << >>, more |-> 0]
    ELSE LET visible == VisibleSlice(matched, TypeaheadMax)
         IN [hint |-> FALSE,
             total |-> Len(matched),
             items |-> [k \in DOMAIN visible |->
                          FormatTestNameByPattern(visible[k], pattern)],
             more |-> IF Len(matched) > TypeaheadMax
                        THEN Len(matched) - TypeaheadMax ELSE 0]

\* _onChange(pattern, options) and the _printTypeahead it calls
OnChange(pattern) ==
  /\ promptPattern' = pattern
  /\ LET r == GetMatchedTests(pattern)
     IN /\ thrown' = r.thrown
        /\ IF r.thrown = "none"
             THEN /\ matchedTests' = r.list
                  /\ typeahead' = PrintTypeahead(pattern, r.list)
             ELSE UNCHANGED <<matchedTests, typeahead>>
  /\ UNCHANGED <<_cachedTestResults, cacheAssigned, highlighted>>
  /\ UNCHANGED outsidePrompt

\* updateCachedTestResults(testResults): testResults || []
UpdateCachedTestResults(hasResults, testResults) ==
  /\ _cachedTestResults' = IF hasResults THEN testResults ELSE << >>
  /\ cacheAssigned' = TRUE
  /\ UNCHANGED <<promptPattern, matchedTests, thrown, typeahead, highlighted>>
  /\ UNCHANGED outsidePrompt

(***************************************************************************)
(* watch.js : watch(), up to its return                                    *)
(***************************************************************************)
\* setWatchMode(argv, argv.watch ? 'watch' : 'watchAll', {pattern: argv._}),
\* the initial values of the closure's variables, and the first startRun().
WatchStarted(a, hide) ==
  /\ argv = a
  /\ hideUsage = hide
  /\ config = [updateSnapshot |-> FALSE]
  /\ currentPattern = << >>
  /\ hasSnapshotFailure = FALSE
  /\ isEnteringPattern = FALSE
  /\ displayHelp = TRUE
  /\ hasteContext = "fsA"
  /\ searchSource = [context |-> hasteContext]
  /\ exited = FALSE
  /\ tokens = NewTestWatcher(<< >>)
  /\ testWatcher = Len(tokens)
  /\ pipe = "preRun"
  /\ isRunning = TRUE
  /\ runs = << [context |-> hasteContext,
                token |-> testWatcher,
                config |-> MergeConfig(config, NoOverride),
                status |-> "active",
                usage |-> FALSE] >>

\* new ReporterDispatcher(), and no dispatch yet
DispatcherConstructed ==
  /\ _reporters = << >>
  /\ dState = "idle"
  /\ dEvent = "none"
  /\ dArray = << >>
  /\ dShared = FALSE
  /\ dIndex = 0
  /\ pending = {}
  /\ invoked = << >>
  /\ testResult = [sourceMaps |-> "data", coverage |-> "data",
                   console |-> "data"]

\* no reporter has an error, and neither method was called
NoErrorsYet ==
  /\ lastError = [r \in WithLastError |-> Null]
  /\ returned = [method |-> "none", value |-> Undefined]

\* new TestNamePatternPrompt(pipe, prompt): the cache is not assigned;
\* nothing was typed, written or highlighted
PromptConstructed ==
  /\ _cachedTestResults = << >>
  /\ cacheAssigned = FALSE
  /\ promptPattern = << >>
  /\ matchedTests = << >>
  /\ thrown = "none"
  /\ typeahead = [hint |-> TRUE, total |-> 0, items |-> << >>, more |-> 0]
  /\ highlighted = [title |-> << >>, pattern |-> << >>, out |-> << >>]

Init ==
  /\ \E a \in [mode : {"watch", "watchAll"}, pattern : CliPatterns],
        hide \in BOOLEAN : WatchStarted(a, hide)
  /\ DispatcherConstructed
  /\ NoErrorsYet
  /\ PromptConstructed

\* The watch controller: its two event streams and the settlement of runs.
Next ==
  \/ \E key \in (IF isEnteringPattern THEN PatternKeys ELSE KEYS) :
        OnKeypress(key)
  \/ \E fs \in HasteFS : HasteChange(fs)
  \/ \E i \in DOMAIN runs, failure \in BOOLEAN : RunComplete(i, failure)
  \/ \E i \in DOMAIN runs : RunReject(i)
  \/ \E i \in DOMAIN runs : StaleInterrupt(i)

Spec == Init /\ [][Next]_vars

\* The event loop handles every event it is given: the controller does not
\* stop while a handler can run.
FairSpec == Spec /\ WF_vars(Next)

InitDispatch ==
  /\ WatchStarted([mode |-> "watch", pattern |-> << >>], FALSE)
  /\ DispatcherConstructed
  /\ NoErrorsYet
  /\ PromptConstructed

\* The reporter dispatcher: its callers and the settlement of awaited hooks.
DispatchNext ==
  \/ \E reporter \in ReporterClasses :
        Len(_reporters) < MaxReporters /\ Register(reporter)
  \/ \E ReporterClass \in ReporterClasses : Unregister(ReporterClass)
  \/ \E event \in Events :
        \E tr \in (IF event = "onTestFileResult"
                     THEN TestResults ELSE {testResult}) : Dispatch(event, tr)
  \/ \E ok \in BOOLEAN : Settle(ok)
  \/ Return

SpecDispatch == InitDispatch /\ [][DispatchNext]_vars

\* The dispatcher's registry between dispatches: reporters come and go,
\* record errors, and callers ask for the errors.
ReportersNext ==
  \/ \E reporter \in ReporterClasses :
        Len(_reporters) < MaxRegistered /\ Register(reporter)
  \/ \E ReporterClass \in ReporterClasses : Unregister(ReporterClass)
  \/ \E reporter \in ReporterClasses, e \in LastErrors :
        ReporterSetsError(reporter, e)
  \/ GetErrorsCall
  \/ HasErrorsCall

SpecReporters == InitDispatch /\ [][ReportersNext]_vars

\* The pattern prompt: the cache is replaced after runs, the input changes.
PromptNext ==
  \/ \E hasResults \in BOOLEAN, testResults \in CachedResults :
        UpdateCachedTestResults(hasResults, testResults)
  \/ \E pattern \in PatternsUpTo(MaxLen) : OnChange(pattern)

SpecPrompt == InitDispatch /\ [][PromptNext]_vars

\* highlight, applied to the titles and to the patterns that compile
HighlightNext ==
  \E title \in Titles, pattern \in PatternsUpTo(MaxLen) :
    HighlightCall(title, pattern)

SpecHighlight == InitDispatch /\ [][HighlightNext]_vars

(***************************************************************************)
(* Properties of the watch controller (checked under Spec)                 *)
(***************************************************************************)
\* a step that settles a run
SettlesRun == \E i \in ActiveRuns : runs'[i].status # "active"

\* a step in which runJest is invoked
BeginsRun == Len(runs') > Len(runs)

C1_Step ==
  /\ isRunning => ~BeginsRun
  /\ SettlesRun => ~BeginsRun
  /\ BeginsRun =>
       \/ \E key \in KEYS : OnKeypress(key)
       \/ \E fs \in HasteFS : HasteChange(fs)

\* C1: at most one run is active at a time; no step taken while isRunning is
\* true (key press, file change or settlement) invokes runJest, so a start
\* request made then is dropped, and the settlement of the active run begins
\* no run by itself: a run begins only in a key press or a file change.
C1_AtMostOneRun ==
  /\ [](Cardinality(ActiveRuns) <= 1)
  /\ [][C1_Step]_vars

\* C1 witness: a file change arrived during the first run and its start
\* request was dropped: the run is still the only one, on the old context.
C1_Witness ==
  /\ isRunning
  /\ Len(runs) = 1
  /\ runs[1].status = "active"
  /\ hasteContext # runs[1].context

\* C2 (as claimed): once every run that was started has settled, fulfilled
\* or rejected, the cleanup has run and isRunning is false.
C2_CleanupAfterSettlement == (ActiveRuns = {}) => ~isRunning

C3_Step ==
  /\ BeginsRun =>
       LET r == runs'[Len(runs')]
       IN /\ r.token \notin DOMAIN tokens
          /\ ~tokens'[r.token].interrupted
  /\ \A i \in DOMAIN runs :
       (/\ runs[i].status # "active"
        /\ ~tokens[runs[i].token].interrupted
        /\ tokens'[runs[i].token].interrupted)
         => \A j \in DOMAIN runs :
              j > i => tokens'[runs[j].token] = tokens[runs[j].token]

\* C3: no two runs receive the same token; the token of a run that begins
\* is allocated in that step and not interrupted; and a step that sets
\* interrupted on the token of a settled run leaves the token of every
\* later run as it was.
C3_TokenNeverReused ==
  /\ [](\A i, j \in DOMAIN runs : i # j => runs[i].token # runs[j].token)
  /\ [][C3_Step]_vars

\* C3 witness: the first run's token is interrupted, the second run is
\* active on another token that is not.
C3_Witness ==
  /\ Len(runs) = 2
  /\ runs[1].status # "active"
  /\ runs[2].status = "active"
  /\ tokens[runs[1].token].interrupted
  /\ ~tokens[runs[2].token].interrupted

C4_Step ==
  \A key \in {"Q", "ENTER", "A", "O", "P"} :
    (ActiveRuns # {} /\ OnKeypress(key)) =>
      /\ \E i \in ActiveRuns :
           tokens' = [tokens EXCEPT ![runs[i].token].interrupted = TRUE]
      /\ ~isEnteringPattern /\ ~isEnteringPattern'
      /\ UNCHANGED <<exited, argv, currentPattern, runs, isRunning,
                     testWatcher, pipe, hasSnapshotFailure, displayHelp,
                     searchSource, hasteContext, hideUsage, config>>

\* C4: while a run is active, q, enter, a, o and p only set interrupted on
\* the active run's token: no exit, no change of mode or pattern, no pattern
\* entry, no run begun.
C4_AbortOnly == [][C4_Step]_vars

\* C4 witness: a run is active and its token has been interrupted.
C4_Witness ==
  /\ ~exited
  /\ \E i \in ActiveRuns : tokens[runs[i].token].interrupted

\* C5 (as claimed, in its strongest temporal form): isEnteringPattern and
\* isRunning are both true at some point.
C5_BothReachable == <>(isEnteringPattern /\ isRunning)

\* C5 (amended): isEnteringPattern and isRunning are never both true.
C5_NeverBoth == ~(isEnteringPattern /\ isRunning)

\* C5 witness: a pattern is being entered after a run has settled.
C5_Witness ==
  /\ isEnteringPattern
  /\ ~isRunning
  /\ runs[1].status = "resolved"

C6_Step ==
  /\ (~isEnteringPattern /\ isEnteringPattern') => argv' = argv
  /\ (isEnteringPattern /\ isEnteringPattern') => argv' = argv
  /\ (isEnteringPattern /\ OnKeypress("ESCAPE")) =>
       /\ ~isEnteringPattern'
       /\ argv' = argv
       /\ currentPattern' =
            IF argv.pattern = << >> THEN UndefinedPattern
            ELSE argv.pattern[1]
       /\ ~BeginsRun

\* C6: entering pattern mode and editing leave the committed pattern
\* (argv._) as it is, and escape then leaves isEnteringPattern false and
\* the current pattern equal to the committed one, and begins no run.
C6_EscapeRestores == [][C6_Step]_vars

\* C6 witness: the pattern given on the command line is the current pattern
\* again after an edit; no commit happened, as a commit begins a run.
C6_Witness ==
  /\ ~isEnteringPattern
  /\ ~isRunning
  /\ pipe = "usage"
  /\ Len(runs) = 1
  /\ argv.pattern = << <<"x">> >>
  /\ currentPattern = <<"x">>

C7_Cancels(fs) ==
  /\ ~isEnteringPattern'
  /\ currentPattern' = << >>
  /\ searchSource' = [context |-> fs]

\* C7 (as claimed): every file-change notification cancels pattern entry,
\* rebuilds the index and begins a run.
C7_ChangeStartsRun ==
  [][\A fs \in HasteFS : HasteChange(fs) => (C7_Cancels(fs) /\ BeginsRun)]_vars

\* C7 (amended): every file-change notification cancels pattern entry and
\* rebuilds the index; it begins a run exactly when none is marked running,
\* on the new context, and otherwise leaves the runs as they are.
C7_ChangeCancelsEntry ==
  [][\A fs \in HasteFS :
       HasteChange(fs) =>
         /\ C7_Cancels(fs)
         /\ isRunning'
         /\ BeginsRun <=> ~isRunning
         /\ BeginsRun => runs'[Len(runs')].context = fs
         /\ isRunning => runs' = runs]_vars

\* C7 witness: a file change began the second run, on the new context and
\* the rebuilt index, with no pattern entry in progress.
C7_Witness ==
  /\ Len(runs) = 2
  /\ runs[1].context = "fsA"
  /\ runs[2].context = "fsB"
  /\ searchSource = [context |-> "fsB"]
  /\ runs[2].status = "active"
  /\ ~isEnteringPattern
  /\ currentPattern = << >>
  /\ pipe = "preRun"
  /\ argv.pattern = << >>

(***************************************************************************)
(* Properties of the reporter dispatcher (checked under SpecDispatch)      *)
(***************************************************************************)
\* the legacy alias of a dispatch method's hook, if it has one
LegacyAlias(event) ==
  CASE event = "onTestFileStart" -> "onTestStart"
    [] event = "onTestFileResult" -> "onTestResult"
    [] OTHER -> event

\* the positions of the loop's array whose reporter exposes a hook for the
\* event, under its own name or its legacy alias
Hooked(event, arr) ==
  {i \in DOMAIN arr : {event, LegacyAlias(event)} \cap Methods(arr[i]) # {}}

InvokedAt(i) == {k \in DOMAIN invoked : invoked[k].index = i}

\* C8: in every dispatch the hooks are invoked in the order of the array
\* (registration order), each on a reporter that exposes it; at most one
\* hook is in progress at a time, and it is the one invoked last; a dispatch
\* that returns has invoked exactly the reporters with a hook for the event.
C8_SequentialInOrder ==
  /\ Cardinality(pending) <= 1
  /\ \A k \in DOMAIN invoked :
       /\ invoked[k].index \in DOMAIN dArray
       /\ invoked[k].hook \in Methods(dArray[invoked[k].index])
       /\ invoked[k].hook \in {dEvent, LegacyAlias(dEvent)}
       /\ k > 1 => invoked[k - 1].index < invoked[k].index
  /\ dState = "awaiting" =>
       /\ invoked # << >>
       /\ pending = {invoked[Len(invoked)].index}
  /\ dState # "awaiting" => pending = {}
  /\ dState = "resolved" =>
       {invoked[k].index : k \in DOMAIN invoked} = Hooked(dEvent, dArray)

\* C8 witness: an onRunComplete dispatch over two reporters has returned
\* after invoking the hook of the first and then the hook of the second.
C8_Witness ==
  /\ dState = "resolved"
  /\ dEvent = "onRunComplete"
  /\ Len(dArray) = 2
  /\ Len(invoked) = 2
  /\ invoked[1].index = 1
  /\ invoked[2].index = 2

Released ==
  [sourceMaps |-> Undefined, coverage |-> Undefined, console |-> Undefined]

C10_PreferredElseLegacy ==
  dEvent \in {"onTestFileStart", "onTestFileResult"} =>
    /\ \A i \in DOMAIN dArray : Cardinality(InvokedAt(i)) <= 1
    /\ \A k \in DOMAIN invoked :
         LET methods == Methods(dArray[invoked[k].index])
         IN invoked[k].hook =
              IF dEvent \in methods THEN dEvent ELSE LegacyAlias(dEvent)
    /\ dState = "resolved" =>
         \A i \in DOMAIN dArray :
           Cardinality(InvokedAt(i)) =
             IF {dEvent, LegacyAlias(dEvent)} \cap Methods(dArray[i]) # {}
               THEN 1 ELSE 0

\* C10 witness: an onTestFileStart dispatch has returned after invoking the
\* preferred hook of a reporter that exposes both and the legacy hook of a
\* reporter that exposes only that.
C10_Witness ==
  /\ dEvent = "onTestFileStart"
  /\ dState = "resolved"
  /\ \E k \in DOMAIN invoked :
       /\ dArray[invoked[k].index] = "Both"
       /\ invoked[k].hook = "onTestFileStart"
  /\ \E k \in DOMAIN invoked :
       /\ dArray[invoked[k].index] = "Legacy"
       /\ invoked[k].hook = "onTestStart"

C15_Step ==
  /\ (dState = "awaiting" /\ Settle(FALSE)) =>
       /\ dState' = "rejected"
       /\ dIndex' = dIndex
       /\ invoked' = invoked
       /\ _reporters' = _reporters
  /\ dState = "rejected" =>
       /\ _reporters' = _reporters
       /\ dState' \in {"rejected", "idle"}
       /\ invoked' \in {invoked, << >>}

\* C15: when the awaited hook fails the dispatch is rejected, with the
\* failure of the reporter whose hook was awaited, and stays so until the
\* caller takes it; no hook is invoked for that event from then on, so no
\* reporter after the failing one is invoked, and the reporter sequence is
\* as it was.
C15_FailurePropagates ==
  /\ [](dState = "rejected" =>
          /\ invoked # << >>
          /\ invoked[Len(invoked)].index = dIndex
          /\ \A k \in DOMAIN invoked : invoked[k].index <= dIndex
          /\ pending = {})
  /\ [][C15_Step]_vars

\* C15 witness: the hook of the first of two reporters failed; the second
\* has a hook for the event and was not invoked.
C15_Witness ==
  /\ dState = "rejected"
  /\ dIndex = 1
  /\ _reporters = dArray
  /\ Len(dArray) = 2
  /\ HookFor(dEvent, dArray[2]) # "none"
  /\ Len(invoked) = 1

(***************************************************************************)
(* Properties of the dispatcher's registry (checked under SpecReporters)   *)
(***************************************************************************)
\* the positions of seq whose reporter is not an instance of ReporterClass
Surviving(seq, ReporterClass) ==
  {i \in DOMAIN seq : ~InstanceOf(seq[i], ReporterClass)}

\* the k-th smallest member of a set of positions
Nth(S, k) == CHOOSE i \in S : Cardinality({j \in S : j < i}) = k - 1

C11_Step ==
  /\ \A reporter \in ReporterClasses :
       Register(reporter) =>
         /\ Len(_reporters') = Len(_reporters) + 1
         /\ _reporters'[Len(_reporters')] = reporter
         /\ \A i \in DOMAIN _reporters : _reporters'[i] = _reporters[i]
  /\ \A ReporterClass \in ReporterClasses :
       Unregister(ReporterClass) =>
         LET S == Surviving(_reporters, ReporterClass)
         IN /\ Len(_reporters') = Cardinality(S)
            /\ \A k \in DOMAIN _reporters' :
                 /\ _reporters'[k] = _reporters[Nth(S, k)]
                 /\ ~InstanceOf(_reporters'[k], ReporterClass)
  /\ (_reporters' # _reporters) =>
       \/ \E reporter \in ReporterClasses : Register(reporter)
       \/ \E ReporterClass \in ReporterClasses : Unregister(ReporterClass)

\* C11: register appends the reporter and keeps the others where they are;
\* unregister leaves exactly the reporters that are not instances of the
\* class, every matching one removed, the others in the order they had; and
\* nothing else changes the reporter sequence.
C11_RegistrationOrder == [][C11_Step]_vars

\* C11 witness: getErrors() saw two reporters with an error; both were
\* instances of a class since unregistered, and a reporter that is not is
\* the only one left.
C11_Witness ==
  /\ returned = [method |-> "getErrors", value |-> <<"E1", "E2">>]
  /\ lastError = [r \in WithLastError |->
                    IF r = "Legacy" THEN "E1" ELSE "E2"]
  /\ _reporters = <<"Modern">>

\* the positions of the reporter sequence whose reporter exposes
\* getLastError and returns an error from it
Erring ==
  {i \in DOMAIN _reporters :
     /\ "getLastError" \in Methods(_reporters[i])
     /\ lastError[_reporters[i]] # Null}

C12_Step ==
  /\ GetErrorsCall =>
       /\ Len(returned'.value) = Cardinality(Erring)
       /\ \A k \in DOMAIN returned'.value :
            returned'.value[k] = lastError[_reporters[Nth(Erring, k)]]
       /\ UNCHANGED <<_reporters, lastError>>
  /\ HasErrorsCall =>
       /\ returned'.value = (Erring # {})
       /\ UNCHANGED <<_reporters, lastError>>

\* C12: getErrors() returns the errors of the reporters that expose
\* getLastError and return a non-null value from it, one per position of
\* the reporter sequence and in its order, and changes neither the sequence
\* nor the reporters; hasErrors() returns whether there is such a reporter.
C12_ErrorsInOrder == [][C12_Step]_vars

\* C12 witness: getErrors() returned the errors of the first and the third
\* of three reporters, the second exposing no getLastError.
C12_Witness ==
  /\ _reporters = <<"Both", "Modern", "Legacy">>
  /\ lastError = [r \in WithLastError |->
                    IF r = "Legacy" THEN "E1" ELSE "E2"]
  /\ returned = [method |-> "getErrors", value |-> <<"E2", "E1">>]

(***************************************************************************)
(* Properties of the pattern prompt (checked under SpecPrompt)             *)
(***************************************************************************)
\* the places of the cache, record and title within it, whose title the
\* pattern matches
MatchingPlaces(cache, pattern) ==
  {p \in UNION {{<<i, j>> : j \in DOMAIN cache[i].testResults} :
                  i \in DOMAIN cache} :
     Test(pattern, cache[p[1]].testResults[p[2]].title)}

\* record order, then title order within a record
Before(p, q) == p[1] < q[1] \/ (p[1] = q[1] /\ p[2] < q[2])

C13_Step ==
  /\ LET pattern == promptPattern'
     IN OnChange(pattern) =>
         /\ UNCHANGED <<_cachedTestResults, cacheAssigned>>
         /\ ~Compiles(pattern) =>
              (thrown' = "none" /\ matchedTests' = << >>)
         /\ (Compiles(pattern) /\ cacheAssigned) =>
              LET M == MatchingPlaces(_cachedTestResults, pattern)
              IN /\ thrown' = "none"
                 /\ Len(matchedTests') = Cardinality(M)
                 /\ \A p \in M :
                      LET k == Cardinality({q \in M : Before(q, p)}) + 1
                      IN matchedTests'[k] =
                           _cachedTestResults[p[1]].testResults[p[2]].title
  /\ \A hasResults \in BOOLEAN, testResults \in CachedResults :
       UpdateCachedTestResults(hasResults, testResults) =>
         /\ cacheAssigned'
         /\ _cachedTestResults' = IF hasResults THEN testResults ELSE << >>

\* C13: for the cache passed last to updateCachedTestResults (empty if none
\* was passed with the call) and every pattern, the list of matches is made
\* of the cached titles the pattern matches as a case-insensitive regular
\* expression, one entry per matching title of each record, in record order
\* and then title order; a pattern that does not compile gives the empty
\* list and nothing is thrown; matching leaves the cache as it is.
C13_MatchesInCacheOrder == [][C13_Step]_vars

\* C13 witness: the pattern a, in lower case, matched a title of the first
\* record in upper case and the same title in two records, listed twice.
C13_Witness ==
  /\ cacheAssigned
  /\ Len(_cachedTestResults) = 3
  /\ promptPattern = <<"a">>
  /\ thrown = "none"
  /\ matchedTests = << <<"b", "A">>, <<"a", "b">>, <<"a", "b">> >>

(***************************************************************************)
(* Properties of highlight (checked under SpecHighlight)                   *)
(***************************************************************************)
\* C14: the result of highlight is the title, character for character; a
\* character is dimmed exactly when it lies outside the matched span; so a
\* match of the whole title dims nothing, and with no match every character
\* is dimmed.
C14_DimsOutsideMatch ==
  LET title == highlighted.title
      out == highlighted.out
      match == Exec(highlighted.pattern, title)
  IN /\ Len(out) = Len(title)
     /\ \A i \in DOMAIN out :
          /\ out[i].char = title[i]
          /\ out[i].dim <=>
               ~(match # NoMatch /\ match.index <= i /\ i < match.end)
     /\ (match # NoMatch /\ match.index = 1 /\ match.end = Len(title) + 1)
          => \A i \in DOMAIN out : ~out[i].dim
     /\ match = NoMatch => \A i \in DOMAIN out : out[i].dim

\* C14 witness: a pattern matched the middle of a title; what precedes and
\* what follows the match is dimmed, the match is not.
C14_Witness ==
  /\ highlighted.title = <<"b", "a", "b">>
  /\ highlighted.pattern = <<"a">>
  /\ highlighted.out = << [char |-> "b", dim |-> TRUE],
                          [char |-> "a", dim |-> FALSE],
                          [char |-> "b", dim |-> TRUE] >>

(***************************************************************************)
(* Further properties of the watch controller (checked under Spec)         *)
(***************************************************************************)
C16_Step ==
  (isEnteringPattern /\ OnKeypress("ENTER")) =>
    /\ ~isEnteringPattern'
    /\ argv'.mode = "watch"
    /\ argv'.pattern = <<currentPattern>>
    /\ FirstPattern(argv') = currentPattern
    /\ currentPattern' = currentPattern
    /\ BeginsRun
    /\ isRunning'
    /\ runs'[Len(runs')].status = "active"
    /\ runs'[Len(runs')].context = hasteContext

\* C16: enter, pressed while a pattern is being entered, makes the edit
\* buffer the committed pattern (argv._[0], which escape restores), leaves
\* isEnteringPattern false and the mode watch, and begins a run on the
\* current context.
C16_EnterCommits == [][C16_Step]_vars

\* C16 witness: the two characters typed are the committed pattern, the
\* mode is watch and the run that enter began is active.
C16_Witness ==
  /\ ~isEnteringPattern
  /\ argv = [mode |-> "watch", pattern |-> << <<"p", "x">> >>]
  /\ currentPattern = <<"p", "x">>
  /\ isRunning
  /\ Len(runs) = 2
  /\ runs[2].status = "active"

\* C17 (as claimed): a run that has settled, fulfilled or rejected, was
\* followed by the usage banner if JEST_HIDE_USAGE is unset, and if it is
\* set exactly when it is the first run that settled.
C17_UsageAfterRuns ==
  \A i \in DOMAIN runs :
    runs[i].status # "active" =>
      (runs[i].usage <=>
         (~hideUsage \/ \A j \in 1..(i - 1) : runs[j].status = "active"))

C18_Step ==
  \A key \in {"CONTROL_C", "CONTROL_D"} :
    OnKeypress(key) =>
      /\ exited'
      /\ UNCHANGED <<tokens, testWatcher, runs, isRunning>>
      /\ UNCHANGED <<currentPattern, isEnteringPattern, argv>>
      /\ UNCHANGED <<hasSnapshotFailure, displayHelp, searchSource,
                     hasteContext, pipe, hideUsage, config>>
      /\ UNCHANGED <<dispatchVars, reporterVars>>

\* C18: until the process has exited, Ctrl-C and Ctrl-D are handled in
\* every state, a run active or not, a pattern being entered or not; the
\* handler exits the process and changes nothing else: no token, no
\* pattern, no mode, no run, nothing of the reporter dispatcher.
C18_ForcedQuit ==
  /\ [](~exited => /\ ENABLED OnKeypress("CONTROL_C")
                    /\ ENABLED OnKeypress("CONTROL_D"))
  /\ [][C18_Step]_vars

\* C18 witness: the process has exited with a run active whose token is not
\* interrupted.
C18_Witness ==
  /\ exited
  /\ isRunning
  /\ \E i \in ActiveRuns :
       runs[i].token = testWatcher /\ ~tokens[testWatcher].interrupted

C19_Step ==
  /\ config' = config
  /\ \A i \in DOMAIN runs : runs'[i].config = runs[i].config
  /\ BeginsRun =>
       LET given == runs'[Len(runs')].config
       IN /\ OnKeypress("U") =>
               given = [k \in DOMAIN config |->
                          IF k = "updateSnapshot" THEN TRUE ELSE config[k]]
          /\ ~OnKeypress("U") => given = config

C20_Step ==
  /\ isRunning' => \E i \in DOMAIN runs' :
                      /\ runs'[i].status = "active"
                      /\ runs'[i].token = testWatcher'
  /\ \A key \in KEYS, t \in DOMAIN tokens :
       (OnKeypress(key) /\ ~tokens[t].interrupted /\ tokens'[t].interrupted)
         => \E i \in ActiveRuns : runs[i].token = t
  /\ \A t \in DOMAIN tokens : tokens[t].interrupted => tokens'[t].interrupted

\* C20 (as claimed): whenever isRunning is true the controller's token is
\* the token of the active run; a key press that sets interrupted sets it
\* on the token of the active run, so never while no run is active; and no
\* step resets interrupted.
C20_TokenOfActiveRun == [][C20_Step]_vars

====
